---- MODULE Spec2Model ----
(***************************************************************************)
(* The news/quote proxy of src/server.js: an in-memory cache (general news *)
(* entry, per-symbol news and price entries), the freshness check, and the *)
(* three Express routes.  A route handler runs synchronously up to its     *)
(* next upstream call (an await), so every action below is one synchronous *)
(* segment of a handler; several handlers can be suspended at once.        *)
(***************************************************************************)
EXTENDS Integers, Sequences, FiniteSets, TLC

(* ------------------------------ bounds -------------------------------- *)
\* requests received in one run
MaxRequests == 3
\* handlers suspended at an upstream call at the same time
MaxInFlight == 2
\* clock advances in one run
MaxTicks == 2

(* --------------------------- program constants ------------------------ *)
CACHE_TTL == 60 * 1000

\* JavaScript null in a timestamp field (a timestamp is otherwise Date.now())
NullTs == -1

\* error.status of an exception that carries no status (undefined)
NoStatus == -1

\* the clock advances in steps of half a TTL, so that ages 0, TTL/2, TTL, ...
\* all occur
TickMs == CACHE_TTL \div 2

\* Date.now() when the process starts: some positive number
StartTime == CACHE_TTL

(* ------------------------------ JSON values --------------------------- *)
\* A JSON value is [t, v]: t its type, v a sequence of integers: the article
\* ids of an array, the number of a number, the current-price field "c" of an
\* object (empty when the object has no such field).
JNull == [t |-> "null", v |-> <<>>]
Arr(ids) == [t |-> "array", v |-> ids]
Num(n) == [t |-> "number", v |-> <<n>>]
Obj(c) == [t |-> "object", v |-> c]

\* Array.isArray(x)
IsArray(x) == x.t = "array"

\* bodies the upstream answers on the two news endpoints
NewsBodies == {Arr(<<1>>), Arr(<<2>>)}

\* bodies the upstream answers on the quote endpoint
QuoteBodies == {Obj(<<150>>), Obj(<<>>), JNull}

\* non-success statuses the upstream answers
UpstreamStatuses == {429, 503}

\* messages of exceptions without a status (network failure, unparsable body)
ExcMessages == {"request to finnhub.io failed"}

\* an upstream call's outcome: the response (status, body) or an exception
OkOutcome(body) == [kind |-> "ok", status |-> 200, body |-> body, message |-> ""]
HttpOutcome(s) == [kind |-> "http", status |-> s, body |-> JNull, message |-> ""]
ThrowOutcome(m) == [kind |-> "throw", status |-> NoStatus, body |-> JNull, message |-> m]

NewsOutcomes ==
  {OkOutcome(b) : b \in NewsBodies} \cup {HttpOutcome(s) : s \in UpstreamStatuses}
    \cup {ThrowOutcome(m) : m \in ExcMessages}

QuoteOutcomes ==
  {OkOutcome(b) : b \in QuoteBodies} \cup {HttpOutcome(s) : s \in UpstreamStatuses}
    \cup {ThrowOutcome(m) : m \in ExcMessages}

(* ------------------------------ symbols ------------------------------- *)
\* A symbol string is the sequence of its UTF-16 code units.
\* "a", "ß"
RawSymbols == {<<97>>, <<223>>}

\* String.prototype.toUpperCase converts by the Unicode default case
\* conversion (the simple uppercase mappings of UnicodeData.txt and the
\* unconditional mappings of SpecialCasing.txt, Unicode 17), code point by code
\* point; it depends on no locale and on no context.  The mappings are the
\* ones of the Unicode version the runtime is built with.

\* the code points 384..65535 with an uppercase mapping to one other code
\* point, as runs <<first, last, step, offset>>: first, first + step, ..., last
\* each map to themselves + offset
UpperRuns ==
  <<
   <<384, 384, 1, 195>>, <<387, 389, 2, -1>>, <<392, 392, 1, -1>>, <<396, 396, 1, -1>>,
   <<402, 402, 1, -1>>, <<405, 405, 1, 97>>, <<409, 409, 1, -1>>, <<410, 410, 1, 163>>,
   <<411, 411, 1, 42561>>, <<414, 414, 1, 130>>, <<417, 421, 2, -1>>, <<424, 424, 1, -1>>,
   <<429, 429, 1, -1>>, <<432, 432, 1, -1>>, <<436, 438, 2, -1>>, <<441, 441, 1, -1>>,
   <<445, 445, 1, -1>>, <<447, 447, 1, 56>>, <<453, 453, 1, -1>>, <<454, 454, 1, -2>>,
   <<456, 456, 1, -1>>, <<457, 457, 1, -2>>, <<459, 459, 1, -1>>, <<460, 460, 1, -2>>,
   <<462, 476, 2, -1>>, <<477, 477, 1, -79>>, <<479, 495, 2, -1>>, <<498, 498, 1, -1>>,
   <<499, 499, 1, -2>>, <<501, 501, 1, -1>>, <<505, 543, 2, -1>>, <<547, 563, 2, -1>>,
   <<572, 572, 1, -1>>, <<575, 576, 1, 10815>>, <<578, 578, 1, -1>>, <<583, 591, 2, -1>>,
   <<592, 592, 1, 10783>>, <<593, 593, 1, 10780>>, <<594, 594, 1, 10782>>, <<595, 595, 1, -210>>,
   <<596, 596, 1, -206>>, <<598, 599, 1, -205>>, <<601, 601, 1, -202>>, <<603, 603, 1, -203>>,
   <<604, 604, 1, 42319>>, <<608, 608, 1, -205>>, <<609, 609, 1, 42315>>, <<611, 611, 1, -207>>,
   <<612, 612, 1, 42343>>, <<613, 613, 1, 42280>>, <<614, 614, 1, 42308>>, <<616, 616, 1, -209>>,
   <<617, 617, 1, -211>>, <<618, 618, 1, 42308>>, <<619, 619, 1, 10743>>, <<620, 620, 1, 42305>>,
   <<623, 623, 1, -211>>, <<625, 625, 1, 10749>>, <<626, 626, 1, -213>>, <<629, 629, 1, -214>>,
   <<637, 637, 1, 10727>>, <<640, 640, 1, -218>>, <<642, 642, 1, 42307>>, <<643, 643, 1, -218>>,
   <<647, 647, 1, 42282>>, <<648, 648, 1, -218>>, <<649, 649, 1, -69>>, <<650, 651, 1, -217>>,
   <<652, 652, 1, -71>>, <<658, 658, 1, -219>>, <<669, 669, 1, 42261>>, <<670, 670, 1, 42258>>,
   <<837, 837, 1, 84>>, <<881, 883, 2, -1>>, <<887, 887, 1, -1>>, <<891, 893, 1, 130>>,
   <<940, 940, 1, -38>>, <<941, 943, 1, -37>>, <<945, 961, 1, -32>>, <<962, 962, 1, -31>>,
   <<963, 971, 1, -32>>, <<972, 972, 1, -64>>, <<973, 974, 1, -63>>, <<976, 976, 1, -62>>,
   <<977, 977, 1, -57>>, <<981, 981, 1, -47>>, <<982, 982, 1, -54>>, <<983, 983, 1, -8>>,
   <<985, 1007, 2, -1>>, <<1008, 1008, 1, -86>>, <<1009, 1009, 1, -80>>, <<1010, 1010, 1, 7>>,
   <<1011, 1011, 1, -116>>, <<1013, 1013, 1, -96>>, <<1016, 1016, 1, -1>>, <<1019, 1019, 1, -1>>,
   <<1072, 1103, 1, -32>>, <<1104, 1119, 1, -80>>, <<1121, 1153, 2, -1>>, <<1163, 1215, 2, -1>>,
   <<1218, 1230, 2, -1>>, <<1231, 1231, 1, -15>>, <<1233, 1327, 2, -1>>, <<1377, 1414, 1, -48>>,
   <<4304, 4346, 1, 3008>>, <<4349, 4351, 1, 3008>>, <<5112, 5117, 1, -8>>, <<7296, 7296, 1, -6254>>,
   <<7297, 7297, 1, -6253>>, <<7298, 7298, 1, -6244>>, <<7299, 7300, 1, -6242>>, <<7301, 7301, 1, -6243>>,
   <<7302, 7302, 1, -6236>>, <<7303, 7303, 1, -6181>>, <<7304, 7304, 1, 35266>>, <<7306, 7306, 1, -1>>,
   <<7545, 7545, 1, 35332>>, <<7549, 7549, 1, 3814>>, <<7566, 7566, 1, 35384>>, <<7681, 7829, 2, -1>>,
   <<7835, 7835, 1, -59>>, <<7841, 7935, 2, -1>>, <<7936, 7943, 1, 8>>, <<7952, 7957, 1, 8>>,
   <<7968, 7975, 1, 8>>, <<7984, 7991, 1, 8>>, <<8000, 8005, 1, 8>>, <<8017, 8023, 2, 8>>,
   <<8032, 8039, 1, 8>>, <<8048, 8049, 1, 74>>, <<8050, 8053, 1, 86>>, <<8054, 8055, 1, 100>>,
   <<8056, 8057, 1, 128>>, <<8058, 8059, 1, 112>>, <<8060, 8061, 1, 126>>, <<8112, 8113, 1, 8>>,
   <<8126, 8126, 1, -7205>>, <<8144, 8145, 1, 8>>, <<8160, 8161, 1, 8>>, <<8165, 8165, 1, 7>>,
   <<8526, 8526, 1, -28>>, <<8560, 8575, 1, -16>>, <<8580, 8580, 1, -1>>, <<9424, 9449, 1, -26>>,
   <<11312, 11359, 1, -48>>, <<11361, 11361, 1, -1>>, <<11365, 11365, 1, -10795>>, <<11366, 11366, 1, -10792>>,
   <<11368, 11372, 2, -1>>, <<11379, 11379, 1, -1>>, <<11382, 11382, 1, -1>>, <<11393, 11491, 2, -1>>,
   <<11500, 11502, 2, -1>>, <<11507, 11507, 1, -1>>, <<11520, 11557, 1, -7264>>, <<11559, 11559, 1, -7264>>,
   <<11565, 11565, 1, -7264>>, <<42561, 42605, 2, -1>>, <<42625, 42651, 2, -1>>, <<42787, 42799, 2, -1>>,
   <<42803, 42863, 2, -1>>, <<42874, 42876, 2, -1>>, <<42879, 42887, 2, -1>>, <<42892, 42892, 1, -1>>,
   <<42897, 42899, 2, -1>>, <<42900, 42900, 1, 48>>, <<42903, 42921, 2, -1>>, <<42933, 42947, 2, -1>>,
   <<42952, 42954, 2, -1>>, <<42957, 42971, 2, -1>>, <<42998, 42998, 1, -1>>, <<43859, 43859, 1, -928>>,
   <<43888, 43967, 1, -38864>>, <<65345, 65370, 1, -32>>
  >>

\* the code points 384..65535 that map to more than one character
SpecialCasing ==
  <<
   <<496, <<74, 780>>>>, <<912, <<921, 776, 769>>>>, <<944, <<933, 776, 769>>>>, <<1415, <<1333, 1362>>>>,
   <<7830, <<72, 817>>>>, <<7831, <<84, 776>>>>, <<7832, <<87, 778>>>>, <<7833, <<89, 778>>>>,
   <<7834, <<65, 702>>>>, <<8016, <<933, 787>>>>, <<8018, <<933, 787, 768>>>>, <<8020, <<933, 787, 769>>>>,
   <<8022, <<933, 787, 834>>>>, <<8064, <<7944, 921>>>>, <<8065, <<7945, 921>>>>, <<8066, <<7946, 921>>>>,
   <<8067, <<7947, 921>>>>, <<8068, <<7948, 921>>>>, <<8069, <<7949, 921>>>>, <<8070, <<7950, 921>>>>,
   <<8071, <<7951, 921>>>>, <<8072, <<7944, 921>>>>, <<8073, <<7945, 921>>>>, <<8074, <<7946, 921>>>>,
   <<8075, <<7947, 921>>>>, <<8076, <<7948, 921>>>>, <<8077, <<7949, 921>>>>, <<8078, <<7950, 921>>>>,
   <<8079, <<7951, 921>>>>, <<8080, <<7976, 921>>>>, <<8081, <<7977, 921>>>>, <<8082, <<7978, 921>>>>,
   <<8083, <<7979, 921>>>>, <<8084, <<7980, 921>>>>, <<8085, <<7981, 921>>>>, <<8086, <<7982, 921>>>>,
   <<8087, <<7983, 921>>>>, <<8088, <<7976, 921>>>>, <<8089, <<7977, 921>>>>, <<8090, <<7978, 921>>>>,
   <<8091, <<7979, 921>>>>, <<8092, <<7980, 921>>>>, <<8093, <<7981, 921>>>>, <<8094, <<7982, 921>>>>,
   <<8095, <<7983, 921>>>>, <<8096, <<8040, 921>>>>, <<8097, <<8041, 921>>>>, <<8098, <<8042, 921>>>>,
   <<8099, <<8043, 921>>>>, <<8100, <<8044, 921>>>>, <<8101, <<8045, 921>>>>, <<8102, <<8046, 921>>>>,
   <<8103, <<8047, 921>>>>, <<8104, <<8040, 921>>>>, <<8105, <<8041, 921>>>>, <<8106, <<8042, 921>>>>,
   <<8107, <<8043, 921>>>>, <<8108, <<8044, 921>>>>, <<8109, <<8045, 921>>>>, <<8110, <<8046, 921>>>>,
   <<8111, <<8047, 921>>>>, <<8114, <<8122, 921>>>>, <<8115, <<913, 921>>>>, <<8116, <<902, 921>>>>,
   <<8118, <<913, 834>>>>, <<8119, <<913, 834, 921>>>>, <<8124, <<913, 921>>>>, <<8130, <<8138, 921>>>>,
   <<8131, <<919, 921>>>>, <<8132, <<905, 921>>>>, <<8134, <<919, 834>>>>, <<8135, <<919, 834, 921>>>>,
   <<8140, <<919, 921>>>>, <<8146, <<921, 776, 768>>>>, <<8147, <<921, 776, 769>>>>, <<8150, <<921, 834>>>>,
   <<8151, <<921, 776, 834>>>>, <<8162, <<933, 776, 768>>>>, <<8163, <<933, 776, 769>>>>, <<8164, <<929, 787>>>>,
   <<8166, <<933, 834>>>>, <<8167, <<933, 776, 834>>>>, <<8178, <<8186, 921>>>>, <<8179, <<937, 921>>>>,
   <<8180, <<911, 921>>>>, <<8182, <<937, 834>>>>, <<8183, <<937, 834, 921>>>>, <<8188, <<937, 921>>>>,
   <<64256, <<70, 70>>>>, <<64257, <<70, 73>>>>, <<64258, <<70, 76>>>>, <<64259, <<70, 70, 73>>>>,
   <<64260, <<70, 70, 76>>>>, <<64261, <<83, 84>>>>, <<64262, <<83, 84>>>>, <<64275, <<1348, 1350>>>>,
   <<64276, <<1348, 1333>>>>, <<64277, <<1348, 1339>>>>, <<64278, <<1358, 1350>>>>, <<64279, <<1348, 1341>>>>
  >>

\* the code points above 65535 with an uppercase mapping, as runs
SupplementaryRuns ==
  <<
   <<66600, 66639, 1, -40>>, <<66776, 66811, 1, -40>>, <<66967, 67003, 2, -39>>, <<66968, 66976, 2, -39>>,
   <<66980, 66992, 2, -39>>, <<66996, 67000, 2, -39>>, <<67004, 67004, 1, -39>>, <<68800, 68850, 1, -64>>,
   <<68976, 68997, 1, -32>>, <<71872, 71903, 1, -32>>, <<93792, 93823, 1, -32>>, <<93883, 93907, 1, -27>>,
   <<125218, 125251, 1, -34>>
  >>

\* the offset of the run of rs that holds c, 0 when none does
OffsetIn(rs, c) ==
  LET hits == {i \in DOMAIN rs :
                 c >= rs[i][1] /\ c <= rs[i][2] /\ (c - rs[i][1]) % rs[i][3] = 0}
  IN IF hits = {} THEN 0 ELSE rs[CHOOSE i \in hits : TRUE][4]

\* the upper case of one character of the Basic Multilingual Plane (one code
\* unit; a surrogate that is not part of a pair is left as it is)
UpperOfChar(c) ==
  IF c \in 97..122 THEN <<c - 32>>
  ELSE IF c < 181 THEN <<c>>
  ELSE IF c = 181 THEN <<924>>
  ELSE IF c = 223 THEN <<83, 83>>
  ELSE IF c \in (224..254) \ {247} THEN <<c - 32>>
  ELSE IF c = 255 THEN <<376>>
  ELSE IF c = 305 THEN <<73>>
  ELSE IF c = 329 THEN <<700, 78>>
  ELSE IF c = 383 THEN <<83>>
  ELSE IF c \in (256..311) \cup (330..375) THEN (IF c % 2 = 1 THEN <<c - 1>> ELSE <<c>>)
  ELSE IF c \in (313..328) \cup (377..382) THEN (IF c % 2 = 0 THEN <<c - 1>> ELSE <<c>>)
  ELSE IF c < 384 THEN <<c>>
  ELSE LET special == {i \in DOMAIN SpecialCasing : SpecialCasing[i][1] = c} IN
       IF special # {} THEN SpecialCasing[CHOOSE i \in special : TRUE][2]
       ELSE <<c + OffsetIn(UpperRuns, c)>>

HighSurrogates == 55296..56319
LowSurrogates == 56320..57343

\* the upper case of the character above 65535 that the surrogate pair hi, lo
\* encodes, as a surrogate pair
UpperOfPair(hi, lo) ==
  LET cp == 65536 + (hi - 55296) * 1024 + (lo - 56320)
      up == cp + OffsetIn(SupplementaryRuns, cp)
  IN <<55296 + ((up - 65536) \div 1024), 56320 + ((up - 65536) % 1024)>>

RECURSIVE toUpperCase(_)
\* String.prototype.toUpperCase
toUpperCase(s) ==
  IF s = <<>> THEN <<>>
  ELSE IF Len(s) >= 2 /\ s[1] \in HighSurrogates /\ s[2] \in LowSurrogates
    THEN UpperOfPair(s[1], s[2]) \o toUpperCase(Tail(Tail(s)))
  ELSE UpperOfChar(Head(s)) \o toUpperCase(Tail(s))

(* ------------------------------ the cache ----------------------------- *)
EmptyEntry == [data |-> JNull, timestamp |-> NullTs]

\* !x for a timestamp: null and 0 are falsy
Falsy(ts) == ts = NullTs \/ ts = 0

isCacheValid_noExpiry(cacheEntry, t) == ~Falsy(cacheEntry.timestamp)

isCacheValid_inclusive(cacheEntry, t) ==
  IF Falsy(cacheEntry.timestamp) THEN FALSE
  ELSE t - cacheEntry.timestamp <= CACHE_TTL

isCacheValid_inverted(cacheEntry, t) ==
  IF Falsy(cacheEntry.timestamp) THEN FALSE
  ELSE t - cacheEntry.timestamp > CACHE_TTL

\* isCacheValid(cacheEntry), with t the value of Date.now()
isCacheValid(cacheEntry, t) ==
  IF Falsy(cacheEntry.timestamp) THEN FALSE
  ELSE t - cacheEntry.timestamp < CACHE_TTL

\* the cache object at process start
InitCache == [general |-> EmptyEntry, symbols |-> [k \in {} |-> EmptyEntry]]

\* cache.symbols[symbol] = { news: {...}, price: {...} } when it does not exist
EnsureSymbol(c, symbol) ==
  IF symbol \in DOMAIN c.symbols THEN c
  ELSE [c EXCEPT !.symbols = (symbol :> [news |-> EmptyEntry, price |-> EmptyEntry]) @@ @]

WriteNews_noTimestamp(c, symbol, data, t) ==
  [c EXCEPT !.symbols[symbol].news = [data |-> data, timestamp |-> NullTs]]

WriteNews_allSymbols(c, symbol, data, t) ==
  [c EXCEPT !.symbols =
     [k \in DOMAIN c.symbols |->
        [c.symbols[k] EXCEPT !.news = [data |-> data, timestamp |-> t]]]]

\* symbolCache.news = { data: news, timestamp: Date.now() }
WriteNews(c, symbol, data, t) ==
  [c EXCEPT !.symbols[symbol].news = [data |-> data, timestamp |-> t]]

\* symbolCache.price = { data: price, timestamp: Date.now() }
WritePrice(c, symbol, data, t) ==
  [c EXCEPT !.symbols[symbol].price = [data |-> data, timestamp |-> t]]

WriteGeneral_keepsTimestamp(c, data, t) ==
  [c EXCEPT !.general.data = data]

\* cache.general = { data: news, timestamp: Date.now() }
WriteGeneral(c, data, t) ==
  [c EXCEPT !.general = [data |-> data, timestamp |-> t]]

\* the entries one request reads and writes: the general entry, or the news and
\* price entry of its symbol
KeyState(c, route, symbol) ==
  IF route = "symbol" THEN c.symbols[symbol]
  ELSE [news |-> c.general, price |-> EmptyEntry]

(* --------------------------- upstream helpers ------------------------- *)
\* fetchNewsFromFinnhub / fetchPriceFromFinnhub after the upstream answered o:
\* the parsed body, or the error thrown
FetchResult(o) ==
  IF o.kind = "throw"
    THEN [threw |-> TRUE, status |-> NoStatus, message |-> o.message, data |-> JNull]
  ELSE IF o.kind = "http" /\ o.status = 429
    THEN [threw |-> TRUE, status |-> 429,
          message |-> "Rate limit exceeded. Please try again later.", data |-> JNull]
  ELSE IF o.kind = "http"
    THEN [threw |-> TRUE, status |-> o.status,
          message |-> "Finnhub API error: statusText", data |-> JNull]
  ELSE [threw |-> FALSE, status |-> 200, message |-> "", data |-> o.body]

\* priceData.c || null
PriceOf(priceData) ==
  IF priceData.t = "object" /\ priceData.v # <<>> /\ priceData.v[1] # 0
    THEN Num(priceData.v[1])
  ELSE JNull

(* ------------------------------ responses ----------------------------- *)
StatusCode_always500(status) == 500

StatusCode_default502(status) == IF status = NoStatus \/ status = 0 THEN 502 ELSE status

\* error.status || 500
StatusCode(status) == IF status = NoStatus \/ status = 0 THEN 500 ELSE status

\* error.message || 'An unexpected error occurred'
MessageOf(message) == IF message = "" THEN "An unexpected error occurred" ELSE message

FailureTitle(route) ==
  IF route = "general" THEN "Failed to fetch news" ELSE "Failed to fetch news/price"

CatchResponse_no429(route, err) ==
  [status |-> StatusCode(err.status), error |-> FailureTitle(route),
   message |-> MessageOf(err.message)]

\* the catch block of a route: status and JSON body of the error response
CatchResponse(route, err) ==
  IF err.status = 429
    THEN [status |-> 429, error |-> "Rate limit exceeded",
          message |-> "Too many requests. Please try again later."]
  ELSE [status |-> StatusCode(err.status), error |-> FailureTitle(route),
        message |-> MessageOf(err.message)]

\* the response when FINNHUB_API_KEY is not set
ConfigError ==
  [status |-> 500, error |-> "Server configuration error",
   message |-> "FINNHUB_API_KEY environment variable is not set"]

KeyMissing_never(key) == FALSE

\* !FINNHUB_API_KEY
KeyMissing(key) == ~key

(* ------------------------------ handlers ------------------------------ *)
\* A handler: its position (pc), the route's locals (symbol, news, price,
\* source), and a record of what it has done so far: when it was received
\* (recvAt), the upstream calls it made and their outcomes (calls, outcomes),
\* the entries of its key when it was received (atRecv), the news entry it
\* wrote (wrote), whether another request for the same key was being handled
\* at some moment of its handling (overlap), and the earlier responses for its
\* key already sent when it was received (before).
Idle ==
  [pc |-> "idle", route |-> "none", symbol |-> <<>>, news |-> JNull, price |-> JNull,
   source |-> "", recvAt |-> 0, calls |-> <<>>, outcomes |-> <<>>,
   atRecv |-> [news |-> EmptyEntry, price |-> EmptyEntry], wrote |-> EmptyEntry,
   overlap |-> FALSE, before |-> {}]

NoReply ==
  [status |-> 0, error |-> "", message |-> "", body |-> JNull, price |-> JNull,
   news |-> JNull, source |-> ""]

Await_twice(h, c, pc, call) ==
  [h |-> [h EXCEPT !.pc = pc, !.calls = Append(Append(@, call), call)], cache |-> c,
   done |-> FALSE, reply |-> NoReply]

\* the handler goes on to await an upstream call
Await(h, c, pc, call) ==
  [h |-> [h EXCEPT !.pc = pc, !.calls = Append(@, call)], cache |-> c, done |-> FALSE,
   reply |-> NoReply]

\* the handler records the outcome of the upstream call it awaited
Got(h, o) == [h EXCEPT !.outcomes = Append(@, o)]

\* res.status(...).json({ error, message })
ReplyError(h, c, e) ==
  [h |-> h, cache |-> c, done |-> TRUE,
   reply |-> [NoReply EXCEPT !.status = e.status, !.error = e.error, !.message = e.message]]

\* res.json(data) of the general route
ReplyGeneral(h, c, data) ==
  [h |-> h, cache |-> c, done |-> TRUE,
   reply |-> [NoReply EXCEPT !.status = 200, !.body = data]]

ReplySymbol_rawNews(h, c) ==
  [h |-> h, cache |-> c, done |-> TRUE,
   reply |-> [NoReply EXCEPT !.status = 200, !.price = h.price, !.news = h.news,
                             !.source = h.source]]

\* res.json({ symbol, price, news: Array.isArray(news) ? news : [], source })
ReplySymbol(h, c) ==
  [h |-> h, cache |-> c, done |-> TRUE,
   reply |-> [NoReply EXCEPT !.status = 200, !.price = h.price,
                             !.news = IF IsArray(h.news) THEN h.news ELSE Arr(<<>>),
                             !.source = h.source]]

Catch_invalidates(h, c, err) ==
  ReplyError(h,
             IF h.route = "general" THEN [c EXCEPT !.general = EmptyEntry]
             ELSE [c EXCEPT !.symbols[h.symbol].price = EmptyEntry],
             CatchResponse(h.route, err))

Catch_clearsSymbol(h, c, err) ==
  ReplyError(h,
             IF h.route = "symbol"
               THEN [c EXCEPT !.symbols[h.symbol] =
                       [news |-> EmptyEntry, price |-> EmptyEntry]]
             ELSE c,
             CatchResponse(h.route, err))

Catch_retry(h, c, err) ==
  IF Len(h.calls) < 3
    THEN Await(h, c, h.pc, h.calls[Len(h.calls)])
  ELSE ReplyError(h, c, CatchResponse(h.route, err))

\* catch (error) { ... } of both routes: the error response, nothing else
Catch(h, c, err) == ReplyError(h, c, CatchResponse(h.route, err))

\* GET /api/news up to its upstream call
GeneralStart(h, c, t, key) ==
  IF isCacheValid(c.general, t) THEN ReplyGeneral(h, c, c.general.data)
  ELSE IF KeyMissing(key) THEN ReplyError(h, c, ConfigError)
  ELSE Await(h, c, "awaitGeneral", "general")

\* GET /api/news after fetchNewsFromFinnhub() settled with outcome o
GeneralResume(h, o, c, t) ==
  LET r == FetchResult(o) IN
  IF r.threw THEN Catch(h, c, r)
  ELSE ReplyGeneral(h, WriteGeneral(c, r.data, t), r.data)

SourceAfterNews_kept(source) == source

\* source = 'api' after the news was fetched
SourceAfterNews(source) == "api"

\* GET /api/news/:symbol from "Fetch price (from cache or API)" on
PriceStage(h, c, t) ==
  LET symbolCache == c.symbols[h.symbol] IN
  IF isCacheValid(symbolCache.price, t)
    THEN ReplySymbol([h EXCEPT !.price = symbolCache.price.data], c)
  ELSE Await(h, c, "awaitPrice", "quote")

\* GET /api/news/:symbol up to its first upstream call
SymbolStart(h, c, t, key) ==
  LET c1 == EnsureSymbol(c, h.symbol)
      symbolCache == c1.symbols[h.symbol]
      h1 == [h EXCEPT !.source = "cache"]
  IN IF KeyMissing(key) THEN ReplyError(h1, c1, ConfigError)
     ELSE IF isCacheValid(symbolCache.news, t)
       THEN PriceStage([h1 EXCEPT !.news = symbolCache.news.data], c1, t)
     ELSE Await(h1, c1, "awaitNews", "company-news")

\* GET /api/news/:symbol after fetchNewsFromFinnhub(symbol) settled with o
NewsResume(h, o, c, t) ==
  LET r == FetchResult(o) IN
  IF r.threw THEN Catch(h, c, r)
  ELSE PriceStage([h EXCEPT !.news = r.data, !.source = SourceAfterNews(@),
                             !.wrote = [data |-> r.data, timestamp |-> t]],
                  WriteNews(c, h.symbol, r.data, t), t)

\* GET /api/news/:symbol after fetchPriceFromFinnhub(symbol) settled with o
PriceResume(h, o, c, t) ==
  LET r == FetchResult(o) IN
  IF r.threw THEN Catch(h, c, r)
  ELSE IF r.data.t = "null"
    THEN Catch(h, c, [status |-> NoStatus,
                      message |-> "Cannot read properties of null (reading 'c')"])
  ELSE LET price == PriceOf(r.data) IN
       ReplySymbol([h EXCEPT !.price = price, !.source = "api"],
                   WritePrice(c, h.symbol, price, t))

(* --------------------------- the browser client ----------------------- *)
\* fetchNews() invocations in one run
MaxFetches == 4

TICKERS == {"AAPL", "MSFT", "AMZN", "GOOG", "TSLA", "NVDA"}

\* the values of the ticker selector the user picks: general news and two
\* tickers
Choices == {"", "AAPL", "MSFT"}

\* what localStorage holds under STORAGE_KEY when the page is opened: nothing
\* (getItem gives null), a ticker, a string that is no ticker
StoredValues == {"", "AAPL", "ZZZZ"}

\* useState([]) and useState(null)
NoArticles == [of |-> "none", req |-> 0]
NoPrice == [of |-> "none", req |-> 0]

\* the values of the five state hooks at the first render (useState)
InitialView ==
  [articles |-> NoArticles, loading |-> TRUE, error |-> "", selectedTicker |-> "",
   stockPrice |-> NoPrice]

\* the dependency of an effect that has not run yet: the effects of the first
\* commit are due whatever selectedTicker is
NoDeps == "no effect has run"

\* the App component before it is mounted.  articles, loading, error,
\* selectedTicker and stockPrice are the values of the state hooks, updates
\* already queued included; view is the render last committed, which is what
\* the page shows and what the closures of that render (fetchNews, the Retry
\* button) see; dep is the selectedTicker for which the effect on
\* [selectedTicker] last ran; storage is localStorage[STORAGE_KEY]; pending are
\* the fetchNews() in flight
Unmounted ==
  [mounted |-> FALSE, articles |-> NoArticles, loading |-> TRUE, error |-> "",
   selectedTicker |-> "", stockPrice |-> NoPrice, view |-> InitialView,
   dep |-> NoDeps, storage |-> "", pending |-> {}, nfetch |-> 0]

(* -------------------------------- state ------------------------------- *)
VARIABLES
  apiKey,    \* whether FINNHUB_API_KEY is set (fixed when the process starts)
  cache,     \* the cache object
  now,       \* Date.now()
  handlers,  \* the handlers suspended at an upstream call, by slot
  nreq,      \* requests of the two news routes received so far
  hist,      \* earlier responses that a later request for the same key follows
  client     \* the browser client: the state of the App component

vars == <<apiKey, cache, now, handlers, nreq, hist, client>>

Slots == 1..MaxInFlight

NoEntries == [news |-> EmptyEntry, price |-> EmptyEntry]

\* the response of a finished handler, with the record of its handling
Summary(r, t) ==
  [route |-> r.h.route, symbol |-> r.h.symbol, status |-> r.reply.status,
   error |-> r.reply.error, message |-> r.reply.message, body |-> r.reply.body,
   price |-> r.reply.price, news |-> r.reply.news, source |-> r.reply.source,
   calls |-> r.h.calls, outcomes |-> r.h.outcomes, recvAt |-> r.h.recvAt, sentAt |-> t,
   atRecv |-> r.h.atRecv, atResp |-> KeyState(r.cache, r.h.route, r.h.symbol),
   wrote |-> r.h.wrote, overlap |-> r.h.overlap, before |-> r.h.before]

IsEmpty(ks) == ks.news = EmptyEntry /\ ks.price = EmptyEntry

\* a symbol request whose company-news call succeeded and whose quote call failed
NewsOkPriceFailed(s) ==
  /\ s.route = "symbol"
  /\ s.status # 200
  /\ s.calls = <<"company-news", "quote">>

\* the responses the two-request properties start from: a 200 of the general
\* route, a 200 of the symbol route for a symbol whose cache was empty, and a
\* symbol request that failed at the quote call after fetching the news
Remembered(s) ==
  \/ s.route = "general" /\ s.status = 200
  \/ s.route = "symbol" /\ s.status = 200 /\ IsEmpty(s.atRecv)
  \/ NewsOkPriceFailed(s)

\* what is kept of such a response: for a 200, what it carried and the entries
\* of its key when it was sent; for a failed quote call, the news entry the
\* request had written; on the symbol route, whether another request for the
\* symbol was handled at the same time
Memo(s) ==
  IF s.route = "general"
    THEN [kind |-> "general", symbol |-> s.symbol, recvAt |-> 0, body |-> s.body,
          news |-> JNull, price |-> JNull, atResp |-> s.atResp, wrote |-> EmptyEntry,
          overlap |-> FALSE]
  ELSE IF s.status = 200
    THEN [kind |-> "fresh", symbol |-> s.symbol, recvAt |-> s.recvAt, body |-> JNull,
          news |-> s.news, price |-> s.price, atResp |-> s.atResp,
          wrote |-> EmptyEntry, overlap |-> s.overlap]
  ELSE [kind |-> "failed", symbol |-> s.symbol, recvAt |-> 0, body |-> JNull,
        news |-> JNull, price |-> JNull, atResp |-> NoEntries, wrote |-> s.wrote,
        overlap |-> s.overlap]

\* a failed quote call is followed by the next request for its symbol, and is
\* kept until that request is received
Unfollowed(symbol) == {m \in hist : ~(m.kind = "failed" /\ m.symbol = symbol)}

Init ==
  /\ apiKey \in BOOLEAN
  /\ cache = InitCache
  /\ now = StartTime
  /\ handlers = [i \in Slots |-> Idle]
  /\ nreq = 0
  /\ hist = {}
  /\ client = Unmounted

IdleSlots == {i \in Slots : handlers[i].pc = "idle"}

FreeSlot == CHOOSE i \in IdleSlots : \A j \in IdleSlots : i <= j

\* a request can be received
CanReceive == nreq < MaxRequests /\ IdleSlots # {}

\* a request as it enters its route
Received(route, symbol, c) ==
  [Idle EXCEPT !.pc = "start", !.route = route, !.symbol = symbol, !.recvAt = now,
               !.atRecv = KeyState(c, route, symbol),
               !.before = {m \in hist : m.symbol = symbol},
               !.overlap = \E j \in Slots :
                              /\ handlers[j].pc # "idle"
                              /\ handlers[j].route = route
                              /\ handlers[j].symbol = symbol]

\* what the synchronous segment run by each kind of step does
OnGeneral == GeneralStart(Received("general", <<>>, cache), cache, now, apiKey)

OnSymbol(raw) ==
  LET symbol == toUpperCase(raw) IN
  SymbolStart(Received("symbol", symbol, EnsureSymbol(cache, symbol)), cache, now, apiKey)

OnGeneralSettled(i, o) == GeneralResume(Got(handlers[i], o), o, cache, now)

OnNewsSettled(i, o) == NewsResume(Got(handlers[i], o), o, cache, now)

OnPriceSettled(i, o) == PriceResume(Got(handlers[i], o), o, cache, now)

\* slot i has run one synchronous segment with result r: the cache is as the
\* segment left it, the handler is suspended again or has sent its response
Step(i, r, kept) ==
  /\ cache' = r.cache
  /\ handlers' =
       [j \in Slots |->
          IF j = i THEN (IF r.done THEN Idle ELSE r.h)
          ELSE IF handlers[j].pc # "idle" /\ handlers[j].route = r.h.route
                  /\ handlers[j].symbol = r.h.symbol
            THEN [handlers[j] EXCEPT !.overlap = TRUE]
          ELSE handlers[j]]
  /\ hist' = IF r.done /\ Remembered(Summary(r, now))
               THEN kept \cup {Memo(Summary(r, now))}
             ELSE kept
  /\ UNCHANGED client

\* app.get('/api/news')
RecvGeneral ==
  /\ CanReceive
  /\ nreq' = nreq + 1
  /\ Step(FreeSlot, OnGeneral, hist)
  /\ UNCHANGED <<apiKey, now>>

\* app.get('/api/news/:symbol')
RecvSymbol(raw) ==
  /\ CanReceive
  /\ nreq' = nreq + 1
  /\ Step(FreeSlot, OnSymbol(raw), Unfollowed(toUpperCase(raw)))
  /\ UNCHANGED <<apiKey, now>>

\* the upstream answers the general-news call of slot i
ResumeGeneral(i, o) ==
  /\ handlers[i].pc = "awaitGeneral"
  /\ Step(i, OnGeneralSettled(i, o), hist)
  /\ UNCHANGED <<apiKey, now, nreq>>

\* the upstream answers the company-news call of slot i
ResumeNews(i, o) ==
  /\ handlers[i].pc = "awaitNews"
  /\ Step(i, OnNewsSettled(i, o), hist)
  /\ UNCHANGED <<apiKey, now, nreq>>

\* the upstream answers the quote call of slot i
ResumePrice(i, o) ==
  /\ handlers[i].pc = "awaitPrice"
  /\ Step(i, OnPriceSettled(i, o), hist)
  /\ UNCHANGED <<apiKey, now, nreq>>

\* res.json({ status: 'ok' })
HealthReply == [NoReply EXCEPT !.status = 200, !.body = Obj(<<>>)]

\* app.get('/health'): reads and writes no state
Health ==
  /\ HealthReply.status = 200
  /\ UNCHANGED vars

\* time passes
Tick ==
  /\ now + TickMs <= StartTime + MaxTicks * TickMs
  /\ now' = now + TickMs
  /\ UNCHANGED <<apiKey, cache, handlers, nreq, hist, client>>

Next ==
  \/ RecvGeneral
  \/ \E raw \in RawSymbols : RecvSymbol(raw)
  \/ \E i \in Slots, o \in NewsOutcomes : ResumeGeneral(i, o)
  \/ \E i \in Slots, o \in NewsOutcomes : ResumeNews(i, o)
  \/ \E i \in Slots, o \in QuoteOutcomes : ResumePrice(i, o)
  \/ Health
  \/ Tick

Spec == Init /\ [][Next]_vars

(* ------------------------- responses being sent ----------------------- *)
\* the results of the segments that can run in the current state
Segments ==
  (IF CanReceive THEN {OnGeneral} \cup {OnSymbol(raw) : raw \in RawSymbols} ELSE {})
  \cup {OnGeneralSettled(i, o) :
          i \in {j \in Slots : handlers[j].pc = "awaitGeneral"}, o \in NewsOutcomes}
  \cup {OnNewsSettled(i, o) :
          i \in {j \in Slots : handlers[j].pc = "awaitNews"}, o \in NewsOutcomes}
  \cup {OnPriceSettled(i, o) :
          i \in {j \in Slots : handlers[j].pc = "awaitPrice"}, o \in QuoteOutcomes}

\* the response of the health route, which has no handling to record
HealthResponse ==
  Summary([h |-> [Idle EXCEPT !.route = "health", !.recvAt = now], cache |-> cache,
           done |-> TRUE, reply |-> HealthReply], now)

\* the responses of the two news routes that a step from the current state sends
Outgoing == {Summary(r, now) : r \in {x \in Segments : x.done}}

\* the responses of all routes that a step from the current state sends
OutgoingAll == Outgoing \cup {HealthResponse}

(* ------------------------------ properties ---------------------------- *)
\* the number of calls of one kind among the upstream calls of a request
Count(calls, kind) == Cardinality({k \in DOMAIN calls : calls[k] = kind})

\* the outcome of the last upstream call of a request
LastOutcome(s) == s.outcomes[Len(s.outcomes)]

\* the news field of a symbol response that serves the news payload x
Served(x) == IF IsArray(x) THEN x ELSE Arr(<<>>)

\* an earlier 200 of the general route whose entry is younger than TTL when
\* the request with response s is received
FollowsGeneral(s, m) ==
  /\ s.route = "general"
  /\ m \in s.before
  /\ m.kind = "general"
  /\ s.recvAt - m.atResp.news.timestamp < CACHE_TTL

\* C1 as claimed: a general-news request handled less than TTL after the
\* entry of an earlier 200 was stored returns 200 with the payload of that
\* earlier response and makes no upstream call, whatever is interleaved.
C1_SamePayloadAlways ==
  \A s \in Outgoing : \A m \in s.before :
    FollowsGeneral(s, m) =>
      s.status = 200 /\ s.calls = <<>> /\ s.body = m.body

\* C1 (amended): such a request makes no upstream call and returns 200 with the
\* payload of the entry stored when it is received; that is the payload of the
\* earlier response whenever the entry is still the one the earlier response
\* left (no general request in flight has rewritten it in between).
C1_ServedFromEntry ==
  \A s \in Outgoing : \A m \in s.before :
    FollowsGeneral(s, m) =>
      /\ s.status = 200
      /\ s.calls = <<>>
      /\ s.body = s.atRecv.news.data
      /\ s.atResp = s.atRecv
      /\ (s.atRecv = m.atResp => s.body = m.body)

\* a second general request, received after time has passed and within TTL, is
\* answered with the first one's payload
C1_Witness ==
  \E s \in Outgoing : \E m \in s.before :
    /\ FollowsGeneral(s, m)
    /\ s.recvAt > m.atResp.news.timestamp
    /\ s.calls = <<>>
    /\ s.body = m.body

\* an earlier 200 of the symbol route, for the same symbol and handled with an
\* empty cache for it, received less than TTL before the request with response s
FollowsFresh(s, m) ==
  /\ s.route = "symbol"
  /\ m \in s.before
  /\ m.kind = "fresh"
  /\ s.recvAt - m.recvAt < CACHE_TTL

\* both upstream calls of a symbol request were answered with success
BothAnswered(s) ==
  /\ Len(s.outcomes) = 2
  /\ s.outcomes[1].kind = "ok"
  /\ s.outcomes[2].kind = "ok"

\* C2 as claimed (the credential being set): a symbol request handled with an
\* empty cache for its symbol makes exactly the two upstream calls
\* company-news, quote and, if both succeed, responds 200 with source "api"; a
\* later request for the symbol, received less than TTL after the first was,
\* makes no upstream call and responds with source "cache" and the same price
\* and news.
C2_TwoCallsThenCached ==
  \A s \in Outgoing :
    /\ (s.route = "symbol" /\ IsEmpty(s.atRecv) /\ apiKey) =>
         /\ s.calls = <<"company-news", "quote">>
         /\ (BothAnswered(s) => s.status = 200 /\ s.source = "api")
    /\ \A m \in s.before :
         FollowsFresh(s, m) =>
           /\ s.calls = <<>>
           /\ s.source = "cache"
           /\ s.price = m.price
           /\ s.news = m.news

\* C2 (amended): with the credential set, a symbol request handled with an
\* empty cache for its symbol makes the company-news call and, only when that
\* call succeeds, the quote call (always, when no other request for the symbol
\* is handled at the same time); when both succeed and the quote body is not
\* null it responds 200, and every 200 it sends has source "api".  A later
\* request for the symbol, received less than TTL after the first was, makes
\* no upstream call and responds 200 with source "cache" and the price and
\* news of the entries then stored: those of the first response whenever no
\* other request for the symbol was being handled together with the first.
C2_EndToEnd ==
  \A s \in Outgoing :
    /\ (s.route = "symbol" /\ IsEmpty(s.atRecv) /\ apiKey) =>
         /\ s.calls \in {<<"company-news">>, <<"company-news", "quote">>}
         /\ (s.outcomes[1].kind # "ok" => s.calls = <<"company-news">>)
         /\ (s.outcomes[1].kind = "ok" /\ ~s.overlap =>
               s.calls = <<"company-news", "quote">>)
         /\ (BothAnswered(s) /\ s.outcomes[2].body # JNull => s.status = 200)
         /\ (s.status = 200 => s.source = "api")
    /\ \A m \in s.before :
         FollowsFresh(s, m) =>
           /\ s.status = 200
           /\ s.calls = <<>>
           /\ s.source = "cache"
           /\ s.price = s.atRecv.price.data
           /\ s.news = Served(s.atRecv.news.data)
           /\ (~m.overlap => s.price = m.price /\ s.news = m.news)

\* a second request for a symbol, received after time has passed and less than
\* TTL after a first one that found the cache empty and made both calls, is
\* answered from the cache with the first one's price and news
C2_Witness ==
  \E s \in Outgoing : \E m \in s.before :
    /\ FollowsFresh(s, m)
    /\ s.recvAt > m.recvAt
    /\ m.atResp.news.timestamp > m.recvAt
    /\ s.calls = <<>>
    /\ s.source = "cache"
    /\ s.price = m.price
    /\ s.news = m.news

\* C3: in every 200 of the symbol route, source is "api" exactly when the
\* request made an upstream call, and "cache" exactly when it made none, its
\* news and price being those of entries that were valid when it was received.
C3_SourceFlag ==
  \A s \in Outgoing :
    (s.route = "symbol" /\ s.status = 200) =>
      /\ s.source \in {"api", "cache"}
      /\ (s.source = "api" <=> s.calls # <<>>)
      /\ (s.source = "cache" <=>
            /\ isCacheValid(s.atRecv.news, s.recvAt)
            /\ isCacheValid(s.atRecv.price, s.recvAt)
            /\ s.news = Served(s.atRecv.news.data)
            /\ s.price = s.atRecv.price.data
            /\ s.calls = <<>>)

\* a 200 of a request that found the news entry stale and the price entry
\* valid: it fetched the news only
C3_Witness ==
  \E s \in Outgoing :
    /\ s.route = "symbol"
    /\ s.status = 200
    /\ s.calls = <<"company-news">>
    /\ ~s.overlap
    /\ s.source = "api"

\* the news and price entry of a symbol, empty when it has none yet
EntriesOf(c, symbol) ==
  IF symbol \in DOMAIN c.symbols THEN c.symbols[symbol] ELSE NoEntries

Keys == {toUpperCase(raw) : raw \in RawSymbols}

\* a segment of a request for symbol a that leaves the cache as c leaves the
\* entries of the other symbols and the general entry as they are
SymbolFrame(c, a) ==
  /\ c.general = cache.general
  /\ \A b \in Keys \ {a} :
       /\ EntriesOf(c, b) = EntriesOf(cache, b)
       /\ (b \in DOMAIN c.symbols <=> b \in DOMAIN cache.symbols)

\* C4: every step of the handling of a request for a symbol (receipt, news
\* settled, quote settled, successful or failed) leaves the entries of every
\* other symbol and the general entry unchanged, and every step of a
\* general-news request leaves the entries of every symbol unchanged.
C4_SymbolIsolation ==
  \A r \in Segments :
    /\ r.h.route = "symbol" => SymbolFrame(r.cache, r.h.symbol)
    /\ r.h.route = "general" => r.cache.symbols = cache.symbols

\* a request for one symbol writes an entry while another symbol has its news
\* and price cached
C4_Witness ==
  \E r \in Segments : \E b \in DOMAIN cache.symbols :
    /\ r.h.route = "symbol"
    /\ b # r.h.symbol
    /\ cache.symbols[b].news.timestamp # NullTs
    /\ cache.symbols[b].price.timestamp # NullTs
    /\ r.cache.symbols[r.h.symbol] # EntriesOf(cache, r.h.symbol)
    /\ r.cache.symbols[r.h.symbol].news.data # cache.symbols[b].news.data

\* C5 as claimed: with the credential unset, every response of every route is
\* the configuration error with status 500, and no upstream call is made.
C5_AllRoutesConfigError ==
  ~apiKey =>
    \A s \in OutgoingAll :
      s.status = 500 /\ s.error = "Server configuration error" /\ s.calls = <<>>

\* C5 (amended): with the credential unset, every response of the two news
\* routes is the configuration error with status 500 and no upstream call is
\* ever made or awaited; the health route still answers 200.
C5_NewsRoutesConfigError ==
  ~apiKey =>
    /\ \A s \in Outgoing :
         /\ s.status = 500
         /\ s.error = "Server configuration error"
         /\ s.message = "FINNHUB_API_KEY environment variable is not set"
         /\ s.calls = <<>>
    /\ \A i \in Slots : handlers[i].pc = "idle"
    /\ cache.general = EmptyEntry
    /\ HealthResponse.status = 200
    /\ HealthResponse.calls = <<>>

\* with the credential unset and two requests already answered, a symbol
\* request and a general request are both answered with the configuration error
C5_Witness ==
  /\ ~apiKey
  /\ nreq >= 2
  /\ DOMAIN cache.symbols # {}
  /\ \E s \in Outgoing : s.route = "symbol" /\ s.status = 500
  /\ \E s \in Outgoing : s.route = "general" /\ s.status = 500

\* an upstream call of the request was answered with HTTP 429
RateLimited(s) ==
  \E k \in DOMAIN s.outcomes : s.outcomes[k].kind = "http" /\ s.outcomes[k].status = 429

\* C6: when an upstream call made for a request (general news, company news
\* or quote) is answered with HTTP 429, the response of the request has status
\* 429 and error category "Rate limit exceeded".
C6_RateLimitMapping ==
  \A s \in Outgoing :
    RateLimited(s) => s.status = 429 /\ s.error = "Rate limit exceeded"

\* the quote call of a symbol request, made after its news call succeeded, is
\* answered with 429, and so is the call of a general request
C6_Witness ==
  /\ \E s \in Outgoing :
       /\ s.route = "symbol"
       /\ Len(s.outcomes) = 2
       /\ s.outcomes[2].status = 429
       /\ s.status = 429
  /\ \E s \in Outgoing : s.route = "general" /\ RateLimited(s) /\ s.status = 429

\* C7 as claimed: every response of the two news routes has a status among
\* 200, 429 and 500.
C7_StatusIn200_429_500 ==
  \A s \in Outgoing : s.status \in {200, 429, 500}

\* C7 (amended): every response of the two news routes has status 200, 429,
\* 500, or the status with which the upstream answered the failed call.
C7_StatusOrUpstream ==
  \A s \in Outgoing :
    \/ s.status \in {200, 429, 500}
    \/ /\ s.outcomes # <<>>
       /\ LastOutcome(s).kind = "http"
       /\ s.status = LastOutcome(s).status

\* an upstream 503 is passed on, and a failure without status gives 500
C7_Witness ==
  /\ \E s \in Outgoing : s.status = 503 /\ LastOutcome(s).status = 503
  /\ \E s \in Outgoing :
       s.outcomes # <<>> /\ LastOutcome(s).kind = "throw" /\ s.status = 500

\* C8: when the upstream answers a call with a non-success status other than
\* 429, the response has that status; when the failure carries no status (an
\* exception, a quote body that is null), the response has status 500.
C8_UpstreamErrorMapping ==
  \A s \in Outgoing :
    s.outcomes # <<>> =>
      LET o == LastOutcome(s) IN
      /\ (o.kind = "http" /\ o.status # 429) => s.status = o.status
      /\ o.kind = "throw" => s.status = 500
      /\ (o.kind = "ok" /\ s.status # 200) => s.status = 500

\* from one state, a quote call answered 503 gives 503 and a quote call that
\* fails without status gives 500
C8_Witness ==
  /\ \E s \in Outgoing :
       s.route = "symbol" /\ Len(s.outcomes) = 2 /\ LastOutcome(s).kind = "http"
         /\ LastOutcome(s).status = 503 /\ s.status = 503
  /\ \E s \in Outgoing :
       s.route = "symbol" /\ Len(s.outcomes) = 2 /\ LastOutcome(s).kind = "throw"
         /\ s.status = 500

\* the news call of a symbol request succeeded and its quote call failed
PriceFailedAfterNews(s) ==
  /\ NewsOkPriceFailed(s)
  /\ Len(s.outcomes) = 2
  /\ s.outcomes[1].kind = "ok"

\* the failed request left the news entry it wrote: the failing step did not
\* touch the entry, which is the written one unless a request for the symbol
\* handled at the same time has written it again since
NewsEntryKept(s) ==
  /\ s.status # 200
  /\ s.error \in {"Failed to fetch news/price", "Rate limit exceeded"}
  /\ s.atResp.news = cache.symbols[s.symbol].news
  /\ s.atResp.news.timestamp >= s.wrote.timestamp
  /\ s.wrote.timestamp # NullTs
  /\ (~s.overlap => s.atResp.news = s.wrote)

\* the request with response s is the next one for the symbol of a request
\* that failed at its quote call, received less than TTL after its news write
FollowsFailed(s, m) ==
  /\ s.route = "symbol"
  /\ m \in s.before
  /\ m.kind = "failed"
  /\ s.recvAt - m.wrote.timestamp < CACHE_TTL

\* C9 as claimed: when the news fetch of a symbol request succeeds and its
\* price fetch fails, the request fails with an error response and the news
\* entry it wrote is kept with its timestamp; the next request for the symbol
\* within TTL of that write makes no company-news call and exactly one quote
\* call, and responds 200 with the cached news if the quote call succeeds.
C9_OneQuoteCallNext ==
  \A s \in Outgoing :
    /\ PriceFailedAfterNews(s) => NewsEntryKept(s)
    /\ \A m \in s.before :
         FollowsFailed(s, m) =>
           /\ Count(s.calls, "company-news") = 0
           /\ Count(s.calls, "quote") = 1
           /\ (LastOutcome(s).kind = "ok" =>
                 s.status = 200 /\ s.news = Served(m.wrote.data))

\* C9 (amended): when the news fetch of a symbol request succeeds and its price
\* fetch fails, the request fails with an error response and the news entry
\* it wrote is kept with its timestamp.  The next request for the symbol
\* within TTL of that write makes no company-news call; it makes one quote
\* call unless a valid price is cached when it is received, which happens only
\* when another request for the symbol was handled together with the failed
\* one; it responds 200 with the news cached at its receipt when it makes no
\* call or its quote call succeeds with a body that is not null, and that
\* news is the one the failed request wrote when no other request for the
\* symbol was handled together with it.
C9_PartialIndependence ==
  \A s \in Outgoing :
    /\ PriceFailedAfterNews(s) => NewsEntryKept(s)
    /\ \A m \in s.before :
         FollowsFailed(s, m) =>
           /\ Count(s.calls, "company-news") = 0
           /\ s.calls = IF isCacheValid(s.atRecv.price, s.recvAt) THEN <<>>
                        ELSE <<"quote">>
           /\ (~m.overlap => s.calls = <<"quote">> /\ s.atRecv.news = m.wrote)
           /\ (s.calls = <<>> \/ (LastOutcome(s).kind = "ok" /\ LastOutcome(s).body # JNull)
                 => /\ s.status = 200
                    /\ s.news = Served(s.atRecv.news.data)
                    /\ (~m.overlap => s.news = Served(m.wrote.data)))

\* the next request after a failed quote call, with nothing else handled for
\* the symbol meanwhile, is answered 200 with the news the failed one wrote
\* and a price from its own quote call
C9_Witness ==
  \E s \in Outgoing : \E m \in s.before :
    /\ FollowsFailed(s, m)
    /\ ~m.overlap
    /\ s.calls = <<"quote">>
    /\ s.status = 200
    /\ s.source = "api"
    /\ s.news = Served(m.wrote.data)
    /\ s.atResp.news = m.wrote

\* C10: the handling of one general-news request makes at most one upstream
\* call, and the handling of one symbol request makes at most one company-news
\* call and at most one quote call, whether its calls succeed or fail; this
\* holds of every response sent and of every request still being handled.
C10_NoRetries ==
  /\ \A s \in Outgoing :
       /\ s.route = "general" => Len(s.calls) <= 1 /\ Count(s.calls, "general") = Len(s.calls)
       /\ s.route = "symbol" =>
            /\ Count(s.calls, "company-news") <= 1
            /\ Count(s.calls, "quote") <= 1
            /\ Len(s.calls) <= 2
  /\ \A r \in Segments :
       /\ Count(r.h.calls, "general") <= 1
       /\ Count(r.h.calls, "company-news") <= 1
       /\ Count(r.h.calls, "quote") <= 1
       /\ Len(r.h.calls) <= 2

\* a symbol request is answered with an error after its quote call failed, and
\* a general request after its call failed, each having made its calls once
C10_Witness ==
  /\ \E s \in Outgoing :
       /\ s.route = "symbol"
       /\ s.status # 200
       /\ s.calls = <<"company-news", "quote">>
       /\ LastOutcome(s).kind # "ok"
  /\ \E s \in Outgoing :
       /\ s.route = "general"
       /\ s.status # 200
       /\ s.calls = <<"general">>

\* the handling of the request ended in an exception that is neither a rate
\* limit nor an upstream HTTP error: the upstream call itself threw, or the
\* body it returned could not be used
Unexpected(s) ==
  /\ s.outcomes # <<>>
  /\ s.status # 200
  /\ LastOutcome(s).kind \in {"throw", "ok"}

\* the text carried by the exception that ended the handling
DetailText(s) ==
  IF LastOutcome(s).kind = "throw" THEN LastOutcome(s).message
  ELSE "Cannot read properties of null (reading 'c')"

\* C11: when the handling of a request raises an exception that is neither a
\* rate limit nor an upstream HTTP error, the response has status 500 and the
\* generic message, and the exception's own text is not in the response body.
C11_GenericMessage ==
  \A s \in Outgoing :
    Unexpected(s) =>
      /\ s.status = 500
      /\ s.message = "An unexpected error occurred"
      /\ s.message # DetailText(s)

\* what the code does in that case: status 500, the route's failure title and
\* the exception's own text as the message
C11_DetailInMessage ==
  \A s \in Outgoing :
    Unexpected(s) =>
      /\ s.status = 500
      /\ s.error = FailureTitle(s.route)
      /\ s.message = DetailText(s)

\* an exception thrown by the upstream call, and a null quote body, each end a
\* request with status 500
C11_Witness ==
  /\ \E s \in Outgoing : Unexpected(s) /\ LastOutcome(s).kind = "throw" /\ s.status = 500
  /\ \E s \in Outgoing : Unexpected(s) /\ LastOutcome(s).kind = "ok" /\ s.status = 500

(* -------------------- the symbol route on any payload ------------------ *)
\* The symbol route alone, for one symbol, with the upstream answering bodies
\* of every JSON type: an array, an object, null and a number for the news; a
\* quote with a price, with price 0, without price, null and a number for the
\* quote.
PayloadNewsBodies == {Arr(<<1>>), Obj(<<>>), JNull, Num(7)}

PayloadQuoteBodies == {Obj(<<150>>), Obj(<<0>>), Obj(<<>>), JNull, Num(7)}

PayloadNewsOutcomes ==
  {OkOutcome(b) : b \in PayloadNewsBodies} \cup {HttpOutcome(503)}

PayloadQuoteOutcomes ==
  {OkOutcome(b) : b \in PayloadQuoteBodies} \cup {HttpOutcome(503)}

\* "a"
PayloadSymbols == {<<97>>}

PayloadNext ==
  \/ \E raw \in PayloadSymbols : RecvSymbol(raw)
  \/ \E i \in Slots, o \in PayloadNewsOutcomes : ResumeNews(i, o)
  \/ \E i \in Slots, o \in PayloadQuoteOutcomes : ResumePrice(i, o)
  \/ Tick

SpecPayload == Init /\ [][PayloadNext]_vars

\* the results of the segments that can run in the current state
PayloadSegments ==
  (IF CanReceive THEN {OnSymbol(raw) : raw \in PayloadSymbols} ELSE {})
  \cup {OnNewsSettled(i, o) :
          i \in {j \in Slots : handlers[j].pc = "awaitNews"}, o \in PayloadNewsOutcomes}
  \cup {OnPriceSettled(i, o) :
          i \in {j \in Slots : handlers[j].pc = "awaitPrice"}, o \in PayloadQuoteOutcomes}

\* the responses that a step from the current state sends
PayloadOutgoing == {Summary(r, now) : r \in {x \in PayloadSegments : x.done}}

\* the request fetched the company news and the upstream answered with a body
FetchedNews(s) ==
  /\ s.calls # <<>>
  /\ s.calls[1] = "company-news"
  /\ s.outcomes[1].kind = "ok"

\* C12: in every 200 response of the symbol route the news field is a
\* sequence: the upstream's array when the company-news payload is an array,
\* the empty sequence when it is an object, null or a scalar, both on the
\* request that fetched the payload and on a later request that serves it from
\* the cache; and no request whose company-news call returned a body, of
\* whatever type, is answered with an error unless its quote call was made and
\* failed.
C12_NewsNormalized ==
  \A s \in PayloadOutgoing :
    /\ s.status = 200 =>
         /\ s.news.t = "array"
         /\ FetchedNews(s) =>
              s.news = IF s.outcomes[1].body.t = "array" THEN s.outcomes[1].body
                       ELSE Arr(<<>>)
         /\ (apiKey /\ Count(s.calls, "company-news") = 0) =>
              s.news = IF s.atRecv.news.data.t = "array" THEN s.atRecv.news.data
                       ELSE Arr(<<>>)
    /\ (FetchedNews(s) /\ s.status # 200) =>
         /\ s.calls = <<"company-news", "quote">>
         /\ \/ LastOutcome(s).kind # "ok"
            \/ LastOutcome(s).body = JNull
    /\ (FetchedNews(s) /\ ~s.overlap) => s.wrote.data = s.outcomes[1].body

\* an object fetched as news is answered as the empty sequence, a null news
\* body stored earlier is served from the cache as the empty sequence, and an
\* array that was fetched is passed on
C12_Witness ==
  /\ \E s \in PayloadOutgoing :
       /\ s.status = 200
       /\ FetchedNews(s)
       /\ s.outcomes[1].body.t = "object"
       /\ s.news = Arr(<<>>)
  /\ \E s \in PayloadOutgoing :
       /\ s.status = 200
       /\ s.calls = <<>>
       /\ s.atRecv.news.data = JNull
       /\ s.atRecv.news.timestamp # NullTs
       /\ s.news = Arr(<<>>)
  /\ \E s \in PayloadOutgoing :
       s.status = 200 /\ FetchedNews(s) /\ s.news = Arr(<<1>>)

\* the quote call of the request succeeded with an object as its body
QuoteAnswered(s) ==
  /\ s.status = 200
  /\ s.calls # <<>>
  /\ s.calls[Len(s.calls)] = "quote"
  /\ LastOutcome(s).kind = "ok"
  /\ LastOutcome(s).body.t = "object"

\* C13: after a successful quote call the price stored in the cache and the
\* price in the response equal the quote's current-price field for every
\* numeric value of the field, 0 included, and are null only when the field is
\* absent.
C13_PriceIsField ==
  \A s \in PayloadOutgoing :
    QuoteAnswered(s) =>
      LET c == LastOutcome(s).body.v IN
      /\ c # <<>> => s.price = Num(c[1]) /\ s.atResp.price.data = Num(c[1])
      /\ c = <<>> => s.price = JNull /\ s.atResp.price.data = JNull
      /\ s.atResp.price.timestamp = s.sentAt

\* what the code does: the field is passed on and stored when it is a number
\* other than 0; a quote without the field and a quote with price 0 both give
\* null, in the response and in the cache
C13_PriceOrNull ==
  \A s \in PayloadOutgoing :
    QuoteAnswered(s) =>
      LET c == LastOutcome(s).body.v IN
      /\ (c # <<>> /\ c[1] # 0) => s.price = Num(c[1]) /\ s.atResp.price.data = Num(c[1])
      /\ (c = <<>> \/ c[1] = 0) => s.price = JNull /\ s.atResp.price.data = JNull
      /\ s.atResp.price.timestamp = s.sentAt

\* a quote with price 0 is answered with price null
C13_Witness ==
  \E s \in PayloadOutgoing :
    /\ QuoteAnswered(s)
    /\ LastOutcome(s).body = Obj(<<0>>)
    /\ s.price = JNull
    /\ s.atResp.price = [data |-> JNull, timestamp |-> now]

\* every entry of the cache
AllEntries ==
  {cache.general}
    \cup {cache.symbols[k].news : k \in DOMAIN cache.symbols}
    \cup {cache.symbols[k].price : k \in DOMAIN cache.symbols}

\* C14: in every reachable state, for the general entry and for the news and
\* price entry of every symbol, data is null if and only if the timestamp is
\* null.
C14_DataIffTimestamp ==
  \A e \in AllEntries : (e.data = JNull) <=> (e.timestamp = NullTs)

\* what the code keeps: an entry without timestamp has no data, and a
\* timestamp is the time of a write, never 0
C14_NoTimestampNoData ==
  \A e \in AllEntries :
    /\ e.timestamp = NullTs => e.data = JNull
    /\ e.timestamp # NullTs => e.timestamp >= StartTime /\ e.timestamp <= now

\* a quote without a current price has been stored: the price entry of a
\* symbol has a timestamp and null data
C14_Witness ==
  \E k \in DOMAIN cache.symbols :
    /\ cache.symbols[k].price.data = JNull
    /\ cache.symbols[k].price.timestamp # NullTs
    /\ cache.symbols[k].news.data # JNull

\* the segment r handles the failure of an upstream call: a non-success
\* status, an exception, or a quote body that is null
HandlesFailure(r) ==
  /\ r.h.outcomes # <<>>
  /\ Len(r.h.outcomes) = Len(r.h.calls)
  /\ r.done
  /\ LET o == r.h.outcomes[Len(r.h.outcomes)] IN
     \/ o.kind # "ok"
     \/ r.h.calls[Len(r.h.calls)] = "quote" /\ o.body = JNull

\* the segments that handle the outcome of an upstream call
Settlings == {r \in Segments : r.h.outcomes # <<>> /\ r.h.pc # "start"}

\* C15: when an upstream call fails (a non-success status or an exception),
\* the step that handles the failure leaves the whole cache as it was: the
\* entry the call would have refreshed keeps its data and timestamp and no
\* other entry changes; the request is answered with an error.
C15_NoUpdateOnFailure ==
  \A r \in Settlings :
    LET o == r.h.outcomes[Len(r.h.outcomes)] IN
    /\ o.kind # "ok" => r.cache = cache /\ r.done /\ r.reply.status # 200
    /\ (r.h.calls[Len(r.h.calls)] = "quote" /\ o.body = JNull /\ o.kind = "ok") =>
         r.cache = cache /\ r.done /\ r.reply.status # 200

\* a quote call fails while the price entry of its symbol holds an earlier,
\* expired price and the news entry the news just fetched; both entries stay
C15_Witness ==
  \E r \in Settlings :
    /\ HandlesFailure(r)
    /\ r.h.route = "symbol"
    /\ r.h.calls = <<"company-news", "quote">>
    /\ cache.symbols[r.h.symbol].price.data # JNull
    /\ ~isCacheValid(cache.symbols[r.h.symbol].price, now)
    /\ r.cache.symbols[r.h.symbol] = cache.symbols[r.h.symbol]
    /\ r.reply.status = 503

(* ------------------------ the clock around the TTL --------------------- *)
\* The general route and the symbol route for one symbol, with the clock
\* taking the instants just around one TTL after the start, so that entries
\* of age TTL - 1, TTL and TTL + 1 are read.
Instants == {0, 1, CACHE_TTL - 1, CACHE_TTL, CACHE_TTL + 1}

\* Date.now() moves on to a later instant
Advance ==
  /\ \E d \in Instants : StartTime + d > now /\ now' = StartTime + d
  /\ UNCHANGED <<apiKey, cache, handlers, nreq, hist, client>>

FreshNext ==
  \/ RecvGeneral
  \/ \E raw \in PayloadSymbols : RecvSymbol(raw)
  \/ \E i \in Slots, o \in NewsOutcomes : ResumeGeneral(i, o)
  \/ \E i \in Slots, o \in NewsOutcomes : ResumeNews(i, o)
  \/ \E i \in Slots, o \in QuoteOutcomes : ResumePrice(i, o)
  \/ Advance

SpecFresh == Init /\ [][FreshNext]_vars

\* the age of an entry that has a timestamp
Age(e) == now - e.timestamp

\* C16: isCacheValid(entry) is false for an entry without timestamp, and for
\* an entry with a timestamp it is true exactly when now - timestamp < TTL: an
\* entry is valid at age TTL - 1 and invalid from age TTL (60 000 ms) on; a
\* request is served from the cache exactly when the check is true.
C16_FreshnessCheck ==
  /\ ~isCacheValid(EmptyEntry, now)
  /\ \A e \in AllEntries :
       /\ e.timestamp = NullTs => ~isCacheValid(e, now)
       /\ e.timestamp # NullTs => (isCacheValid(e, now) <=> Age(e) < CACHE_TTL)
       /\ (e.timestamp # NullTs /\ Age(e) >= CACHE_TTL) =>
            \A d \in Instants : StartTime + d >= now => ~isCacheValid(e, StartTime + d)
  /\ (CanReceive /\ apiKey) =>
       (OnGeneral.done <=>
          (cache.general.timestamp # NullTs /\ Age(cache.general) < CACHE_TTL))

\* the news entry of a symbol is exactly one TTL old and not valid, while its
\* price entry, written 1 ms later, is TTL - 1 old and still valid
C16_Witness ==
  \E k \in DOMAIN cache.symbols :
    /\ cache.symbols[k].news.timestamp # NullTs
    /\ Age(cache.symbols[k].news) = CACHE_TTL
    /\ ~isCacheValid(cache.symbols[k].news, now)
    /\ cache.symbols[k].price.timestamp # NullTs
    /\ Age(cache.symbols[k].price) = CACHE_TTL - 1
    /\ isCacheValid(cache.symbols[k].price, now)

(* --------------------------- concurrent misses ------------------------- *)
\* the segment r handles the successful outcome of a call of the given kind
Fetched(r, call) ==
  /\ r.h.outcomes # <<>>
  /\ r.h.pc # "start"
  /\ Len(r.h.calls) >= Len(r.h.outcomes)
  /\ r.h.calls[Len(r.h.outcomes)] = call
  /\ r.h.outcomes[Len(r.h.outcomes)].kind = "ok"

\* the body of the outcome the segment r handles
Body(r) == r.h.outcomes[Len(r.h.outcomes)].body

\* the entries of a symbol before a step, those of a new symbol being empty
Before(k) == IF k \in DOMAIN cache.symbols THEN cache.symbols[k] ELSE NoEntries

\* C17: under every interleaving of the handlers at their upstream calls, a
\* step changes a cache entry only by replacing it as a whole with the pair
\* (data of the fetch whose outcome the step handles, time of the step), so
\* that an entry is always the empty entry or the pair written by one
\* completed fetch; the write happens whatever the entry holds, so that when
\* two requests for a key both miss and both call upstream the entry ends as
\* the pair of the handler that wrote last.
C17_WholeEntryWrites ==
  \A r \in Segments :
    /\ r.cache.general =
         IF Fetched(r, "general") THEN [data |-> Body(r), timestamp |-> now]
         ELSE cache.general
    /\ \A k \in DOMAIN r.cache.symbols :
         /\ r.cache.symbols[k].news =
              IF Fetched(r, "company-news") /\ r.h.symbol = k
                THEN [data |-> Body(r), timestamp |-> now]
              ELSE Before(k).news
         /\ r.cache.symbols[k].price =
              IF Fetched(r, "quote") /\ r.h.symbol = k /\ Body(r) # JNull
                THEN [data |-> PriceOf(Body(r)), timestamp |-> now]
              ELSE Before(k).price
    /\ \A i \in Slots :
         /\ handlers[i].pc = "awaitGeneral" => handlers[i].calls = <<"general">>
         /\ handlers[i].pc = "awaitNews" => handlers[i].calls = <<"company-news">>
         /\ handlers[i].pc = "awaitPrice" =>
              handlers[i].calls[Len(handlers[i].calls)] = "quote"

\* two general requests both missed and both called upstream; one has written
\* its pair, which is still valid, and the other, settling now with another
\* payload, replaces it with its own pair
C17_Witness ==
  \E r \in Segments :
    /\ Fetched(r, "general")
    /\ r.h.overlap
    /\ cache.general.timestamp >= r.h.recvAt
    /\ isCacheValid(cache.general, now)
    /\ cache.general.data # Body(r)
    /\ cache.general.timestamp < now
    /\ r.cache.general = [data |-> Body(r), timestamp |-> now]

(* ----------------------------- round trips ----------------------------- *)
\* the handlers suspended at an upstream call
InFlight == {i \in Slots : handlers[i].pc \in {"awaitGeneral", "awaitNews", "awaitPrice"}}

\* C18 as claimed: between receiving a request and sending its response the
\* handler awaits at most one upstream call, on the general route and on the
\* symbol route.
C18_OneRoundTrip ==
  /\ \A s \in Outgoing : Len(s.calls) <= 1
  /\ \A i \in InFlight : Len(handlers[i].calls) <= 1

\* C18 (amended): a handler awaits one upstream call at a time and starts a
\* call only after the previous one has been answered; a general request
\* awaits at most one call, a symbol request at most two, the company-news
\* call and then the quote call, one after the other.
C18_RoundTripsPerRoute ==
  /\ \A s \in Outgoing :
       /\ Len(s.outcomes) = Len(s.calls)
       /\ s.route = "general" => s.calls \in {<<>>, <<"general">>}
       /\ s.route = "symbol" =>
            s.calls \in {<<>>, <<"company-news">>, <<"quote">>, <<"company-news", "quote">>}
       /\ s.calls = <<"company-news", "quote">> =>
            /\ s.outcomes[1].kind = "ok"
            /\ s.recvAt <= s.wrote.timestamp
            /\ s.wrote.timestamp <= s.sentAt
  /\ \A i \in InFlight :
       /\ Len(handlers[i].calls) = Len(handlers[i].outcomes) + 1
       /\ handlers[i].route = "general" => Len(handlers[i].calls) = 1
       /\ handlers[i].route = "symbol" => Len(handlers[i].calls) <= 2

\* a symbol request is answered 200 after two round trips in sequence: the
\* news was answered some time after the request was received, and the quote
\* some time after that
C18_Witness ==
  \E s \in Outgoing :
    /\ s.route = "symbol"
    /\ s.status = 200
    /\ s.calls = <<"company-news", "quote">>
    /\ s.recvAt < s.wrote.timestamp
    /\ s.wrote.timestamp < s.sentAt

(* ----------------------- freshness of what is sent --------------------- *)
\* the request took its news (the payload, on the general route) from the cache
NewsFromCache(s) == Count(s.calls, "company-news") = 0 /\ Count(s.calls, "general") = 0

\* when the news of a 200 response was stored: the timestamp of the entry the
\* handler read at receipt, or the time the handler stored what it fetched
NewsStoredAt(s) ==
  IF NewsFromCache(s) THEN s.atRecv.news.timestamp
  ELSE IF s.route = "general" THEN s.atResp.news.timestamp
  ELSE s.wrote.timestamp

\* when the price of a 200 response of the symbol route was stored: the
\* handler reads or writes the price entry in the step that sends the response
PriceStoredAt(s) == s.atResp.price.timestamp

\* C19 as claimed: every payload sent in a 200 response was stored in the
\* cache less than TTL before the response is sent, also the news of a symbol
\* response when the handler has awaited the quote call in between.
C19_FreshWhenSent ==
  \A s \in Outgoing :
    s.status = 200 =>
      /\ s.sentAt - NewsStoredAt(s) < CACHE_TTL
      /\ s.route = "symbol" => s.sentAt - PriceStoredAt(s) < CACHE_TTL

\* C19 (amended): every payload sent in a 200 response was fetched during the
\* handling of the request or was stored less than TTL before the handler
\* read it from the cache.  The general payload and the price are read or
\* stored in the step that sends the response, so they are younger than TTL
\* when sent; the news of a symbol response is read or stored before the
\* quote call is awaited, and is younger than TTL when sent only if no quote
\* call is awaited.
C19_FreshWhenRead ==
  \A s \in Outgoing :
    s.status = 200 =>
      /\ NewsFromCache(s) =>
           /\ s.atRecv.news.timestamp # NullTs
           /\ s.recvAt - NewsStoredAt(s) < CACHE_TTL
      /\ ~NewsFromCache(s) => NewsStoredAt(s) >= s.recvAt /\ NewsStoredAt(s) <= s.sentAt
      /\ s.route = "general" => s.sentAt - NewsStoredAt(s) < CACHE_TTL
      /\ s.route = "symbol" =>
           /\ PriceStoredAt(s) # NullTs
           /\ s.sentAt - PriceStoredAt(s) < CACHE_TTL
           /\ Count(s.calls, "quote") = 0 => s.sentAt - NewsStoredAt(s) < CACHE_TTL
           /\ Count(s.calls, "quote") = 1 => PriceStoredAt(s) = s.sentAt

\* a symbol request found its news in the cache, younger than TTL, awaited the
\* quote call, and is answered 200 when that news is a full TTL old
C19_Witness ==
  \E s \in Outgoing :
    /\ s.route = "symbol"
    /\ s.status = 200
    /\ s.calls = <<"quote">>
    /\ s.recvAt - s.atRecv.news.timestamp < CACHE_TTL
    /\ s.sentAt - s.atRecv.news.timestamp >= CACHE_TTL
    /\ s.news = Served(s.atRecv.news.data)

(* ------------------------ the browser client: App ---------------------- *)
\* The client is modelled with the server as its environment: a fetchNews()
\* in flight is answered, at any later moment and in any order, with the
\* server's response to that request (tagged with the ticker and the number of
\* the request), with a non-success status, or not at all (fetch rejects).
ClientOutcomes == {"ok", "http", "throw"}

\* the server side does nothing while the client runs
ServerIdle == UNCHANGED <<apiKey, cache, now, handlers, nreq, hist>>

InitClient ==
  /\ apiKey = TRUE
  /\ cache = InitCache
  /\ now = StartTime
  /\ handlers = [i \in Slots |-> Idle]
  /\ nreq = 0
  /\ hist = {}
  /\ \E st \in StoredValues : client = [Unmounted EXCEPT !.storage = st]

\* fetchNews() up to "await fetch(url)", called from a render in which
\* selectedTicker has the given value
fetchNews(c, ticker) ==
  [c EXCEPT !.loading = TRUE, !.error = "", !.stockPrice = NoPrice,
            !.nfetch = @ + 1,
            !.pending = @ \cup {[req |-> c.nfetch + 1, ticker |-> ticker]}]

\* fetchNews() from "await fetch(url)" on, for the invocation q answered with o
fetchNewsSettled(c, q, o) ==
  LET c1 == [c EXCEPT !.pending = @ \ {q}] IN
  IF o = "ok"
    THEN IF q.ticker # ""
           THEN [c1 EXCEPT !.stockPrice = [of |-> q.ticker, req |-> q.req],
                           !.articles = [of |-> q.ticker, req |-> q.req],
                           !.loading = FALSE]
         ELSE [c1 EXCEPT !.articles = [of |-> "", req |-> q.req], !.loading = FALSE]
  ELSE [c1 EXCEPT !.error = IF o = "http" THEN "Failed to fetch news: statusText"
                            ELSE "Failed to fetch",
                  !.articles = NoArticles, !.stockPrice = NoPrice, !.loading = FALSE]

\* the values of the state hooks that a render of the component reads
Snapshot(c) ==
  [articles |-> c.articles, loading |-> c.loading, error |-> c.error,
   selectedTicker |-> c.selectedTicker, stockPrice |-> c.stockPrice]

\* the first render and its commit: the page, with the selector, is on the
\* screen; the effects of the commit are due and run in a later task
Mount ==
  /\ ~client.mounted
  /\ client' = [client EXCEPT !.mounted = TRUE, !.view = Snapshot(client)]
  /\ ServerIdle

\* the two effects of the first commit, in the order of the source: the ticker
\* that storage holds by now is restored with setSelectedTicker, which queues a
\* render, and fetchNews() runs with the selectedTicker of the first render,
\* the empty one
MountEffects ==
  /\ client.mounted
  /\ client.dep = NoDeps
  /\ LET lastTicker == client.storage
         restored == lastTicker # "" /\ lastTicker \in TICKERS
         c1 == [client EXCEPT !.selectedTicker = IF restored THEN lastTicker ELSE @]
     IN client' = [fetchNews(c1, c1.view.selectedTicker)
                     EXCEPT !.dep = c1.view.selectedTicker]
  /\ ServerIdle

\* a render with the queued state updates is committed; the effects of the
\* commit before it have run by then
Render ==
  /\ client.mounted
  /\ client.view.selectedTicker = client.dep
  /\ client.view # Snapshot(client)
  /\ client' = [client EXCEPT !.view = Snapshot(client)]
  /\ ServerIdle

\* useEffect(() => { fetchNews() }, [selectedTicker]) after a later commit
\* whose selectedTicker differs from the one the effect last ran for
TickerEffect ==
  /\ client.mounted
  /\ client.dep # NoDeps
  /\ client.view.selectedTicker # client.dep
  /\ client' = [fetchNews(client, client.view.selectedTicker)
                  EXCEPT !.dep = client.view.selectedTicker]
  /\ ServerIdle

\* handleTickerChange: the user picks another value than the one the selector shows
handleTickerChange(ticker) ==
  /\ client.mounted
  /\ ticker # client.view.selectedTicker
  /\ client.nfetch < MaxFetches
  /\ client' = [client EXCEPT !.selectedTicker = ticker, !.storage = ticker]
  /\ ServerIdle

\* the Retry button, shown while the render shows an error: the fetchNews of
\* that render
Retry ==
  /\ client.mounted
  /\ client.view.error # ""
  /\ client.nfetch < MaxFetches
  /\ client' = fetchNews(client, client.view.selectedTicker)
  /\ ServerIdle

\* the response to a fetchNews() in flight arrives
Arrive(q, o) ==
  /\ q \in client.pending
  /\ client' = fetchNewsSettled(client, q, o)
  /\ ServerIdle

ClientNext ==
  \/ Mount
  \/ MountEffects
  \/ Render
  \/ TickerEffect
  \/ \E ticker \in Choices : handleTickerChange(ticker)
  \/ Retry
  \/ \E q \in client.pending, o \in ClientOutcomes : Arrive(q, o)

SpecClient == InitClient /\ [][ClientNext]_vars

\* the page shows results: the committed render is not loading and shows no
\* error
ShowsResults == client.mounted /\ ~client.view.loading /\ client.view.error = ""

\* nothing is left to do: no update waits for a render, no effect is due and
\* no fetchNews() is in flight
Settled ==
  /\ client.view = Snapshot(client)
  /\ client.view.selectedTicker = client.dep
  /\ client.pending = {}

\* C20: whenever loading is false and error is null, the displayed articles
\* and stock price are those of the response to the request made for the
\* currently selected ticker (general news when the selection is empty),
\* under every order of arrival of the responses.  The property is stated
\* for the moments at which nothing is left to do (no render or effect is
\* due and no response is outstanding), where it asks the least.
C20_DisplayConsistent ==
  (ShowsResults /\ Settled) =>
    /\ client.view.articles.of = client.view.selectedTicker
    /\ client.view.selectedTicker # "" =>
         client.view.stockPrice.of = client.view.selectedTicker

\* what the code keeps: what is displayed comes from one of the requests the
\* client made
C20_DisplayedWasRequested ==
  ShowsResults =>
    /\ client.view.articles.req \in 0..client.nfetch
    /\ client.view.articles.of \in Choices \cup {"none"}
    /\ client.view.stockPrice # NoPrice =>
         /\ client.view.stockPrice.of \in Choices \ {""}
         /\ client.view.stockPrice.req \in 1..client.nfetch

\* the page restored a ticker from storage, the ticker's response has arrived
\* and then the response for general news: with nothing left in flight the
\* page shows the general articles with the ticker's price, under the ticker
C20_Witness ==
  /\ ShowsResults
  /\ Settled
  /\ client.view.selectedTicker = "AAPL"
  /\ client.view.articles = [of |-> "", req |-> 1]
  /\ client.view.stockPrice = [of |-> "AAPL", req |-> 2]

====
